---- MODULE Spec2Model ----
(***************************************************************************)
(* Model of the hospital lookup of healthcare_agents/hospital_finder_agent *)
(* (get_location_from_ip and find_nearby_hospitals): one invocation, its   *)
(* outbound calls to the IP-geolocation service and to the places API, and *)
(* the value it returns; and a second invocation running concurrently with *)
(* it, the two taking turns at their network calls.                        *)
(***************************************************************************)
EXTENDS Integers, Sequences, FiniteSets, TLC

VARIABLES
    pc,            \* position of the invocation inside find_nearby_hospitals
    radius,        \* the radius argument
    env_key,       \* process environment: GOOGLE_PLACES_API_KEY
    lat,           \* latitude returned by get_location_from_ip (None or Some)
    lng,           \* longitude returned by get_location_from_ip
    location_str,  \* "<city>, <region>" label returned by get_location_from_ip
    api_key,       \* local api_key, read from the environment
    places_data,   \* parsed body of the nearby-search response
    i,             \* enumerate() index of the hit being processed (1-based)
    hospitals,     \* list of rendered entries
    calls,         \* outbound requests made so far, each with its response
    result,        \* value returned by find_nearby_hospitals (None until return)
    me,            \* which invocation the variables above belong to (1 or 2)
    peer           \* the locals of the other invocation, waiting at a request

vars == <<pc, radius, env_key, lat, lng, location_str, api_key, places_data,
          i, hospitals, calls, result, me, peer>>

----------------------------------------------------------------------------
(* Bounds of the model *)

\* longest results list the provider returns in a nearby-search response
MaxHits == 11

\* most hits of one response that differ from the canonical hit (a hit that
\* has a place_id and whose details response is OK with every field present)
MaxDeviations == 1

(* Program constants *)

\* places_data["results"][:10]
MaxResults == 10

\* def find_nearby_hospitals(radius: int = 5000)
DefaultRadius == 5000

----------------------------------------------------------------------------
(* Python values *)

\* Optional values: None is the empty tuple, a present value v is <<v>>
None == <<>>
Some(v) == <<v>>

\* dict.get(key, default) on an optional field
Get(field, default) == IF field = None THEN default ELSE field[1]

\* truthiness as tested by `not x` / `if x:`: None is false, and so are the
\* number 0, the empty string "" and a string or list with no pieces, <<>>
TruthyNum(x) == x # None /\ x[1] # 0
TruthyStr(x) == x # None /\ x[1] # ""
TruthySeq(x) == x # None /\ x[1] # <<>>

Min(a, b) == IF a < b THEN a ELSE b

\* seq[:n]
Take(seq, n) == SubSeq(seq, 1, Min(n, Len(seq)))

----------------------------------------------------------------------------
(* IP-geolocation service: https://ipinfo.io/json *)

\* A "lat,long" string is modelled by the list of its comma-separated
\* pieces (what loc.split(",") yields); each piece is a number float()
\* accepts, <<"num", v>>, or text it rejects. The empty string is <<>>.
Num(v) == <<"num", v>>
Junk == <<"junk">>

LocStrings ==
    { <<Num(19), Num(72)>>,      \* "19,72"
      <<Num(0), Num(72)>>,       \* "0,72"   (equator)
      <<Num(19), Num(0)>>,       \* "19,0"   (prime meridian)
      <<Num(91), Num(181)>>,     \* "91,181" (outside the valid ranges)
      <<Num(19)>>,               \* "19"       one piece
      <<Num(19), Num(72), Num(5)>>,  \* "19,72,5" three pieces
      <<Num(19), Junk>>,         \* "19,abc"
      <<Junk, Num(72)>> }        \* "abc,72"

\* the JSON bodies of the geolocation response: each loc with city and region,
\* and bodies where city, region or both are missing
GeoBodies ==
    [loc : {None, Some(<<>>)}, city : {None}, region : {None}]
    \cup [loc : {Some(s) : s \in LocStrings},
          city : {Some("Mumbai")}, region : {Some("Maharashtra")}]
    \cup { [loc |-> Some(<<Num(19), Num(72)>>), city |-> None, region |-> None],
           [loc |-> Some(<<Num(0), Num(72)>>), city |-> Some("Mumbai"), region |-> None],
           [loc |-> Some(<<Num(19), Num(0)>>), city |-> None,
            region |-> Some("Maharashtra")] }

\* what requests.get / raise_for_status / json() can produce (lines 23-25)
GeoResponses ==
    { [kind |-> k, body |-> [loc |-> None, city |-> None, region |-> None]] :
        k \in {"network_error", "http_error", "bad_json"} }
    \cup { [kind |-> "json", body |-> b] : b \in GeoBodies }

\* map(float, loc.split(",")) unpacked into two names raises unless there are
\* exactly two pieces and float() accepts both
ParsesToPair(s) == Len(s) = 2 /\ s[1][1] = "num" /\ s[2][1] = "num"

NotResolved == [lat |-> None, lng |-> None, location_str |-> None]

\* a resolver that falls back to a fixed coordinate when detection fails
get_location_or_default(resp) ==
    IF resp.kind = "json" /\ TruthySeq(resp.body.loc)
                          /\ ParsesToPair(resp.body.loc[1])
    THEN [lat |-> Some(resp.body.loc[1][1][2]),
          lng |-> Some(resp.body.loc[1][2][2]),
          location_str |-> Some(<<Get(resp.body.city, "Unknown City"),
                                  Get(resp.body.region, "Unknown Region")>>)]
    ELSE [lat |-> Some(19), lng |-> Some(72),
          location_str |-> Some(<<"Unknown City", "Unknown Region">>)]

\* get_location_from_ip, given the service's response
get_location_from_ip(resp) ==
    IF resp.kind # "json" THEN NotResolved            \* except Exception
    ELSE IF ~TruthySeq(resp.body.loc) THEN NotResolved \* if loc: (absent or "")
    ELSE LET s == resp.body.loc[1] IN
         IF ~ParsesToPair(s) THEN NotResolved         \* ValueError, caught
         ELSE [lat |-> Some(s[1][2]),
               lng |-> Some(s[2][2]),
               location_str |->
                   Some(<<Get(resp.body.city, "Unknown City"),
                          Get(resp.body.region, "Unknown Region")>>)]

----------------------------------------------------------------------------
(* Places API: nearby search *)

\* a hit of the results list; only its place_id is read (line 82). The hit
\* at provider rank k carries the id k, or no place_id at all.
Hit(k, hasId) == [place_id |-> IF hasId THEN Some(k) ELSE None]

\* results lists of up to MaxHits hits, at most MaxDeviations without place_id
ResultLists ==
    { [k \in 1..n |-> Hit(k, k \notin noId)] :
        <<n, noId>> \in { <<m, S>> \in (0..MaxHits) \X SUBSET (1..MaxHits) :
                            S \subseteq 1..m /\ Cardinality(S) <= MaxDeviations } }

\* provider statuses other than "OK" (Places API status codes)
ProviderErrors == {"OVER_QUERY_LIMIT", "REQUEST_DENIED"}
NonOkStatuses == {"ZERO_RESULTS"} \cup ProviderErrors

NoBody == [status |-> None, results |-> None]

\* what requests.get(places_url) / json() can produce (lines 71-72)
SearchResponses ==
    { [kind |-> k, body |-> NoBody] : k \in {"network_error", "bad_json"} }
    \cup { [kind |-> "json", body |-> NoBody] }     \* a body with no "status"
    \cup { [kind |-> "json", body |-> [status |-> Some(st), results |-> Some(<<>>)]] :
             st \in NonOkStatuses }
    \cup { [kind |-> "json", body |-> [status |-> Some("OK"), results |-> None]] }
    \cup { [kind |-> "json", body |-> [status |-> Some("OK"), results |-> Some(r)]] :
             r \in ResultLists }

----------------------------------------------------------------------------
(* Places API: place details *)

\* the provider's record of place pid, with its open_now flag as given
Present(pid, open) ==
    [name |-> Some("Hospital " \o ToString(pid)),
     formatted_address |-> Some("1 Main Road"),
     formatted_phone_number |-> Some("022-5550100"),
     rating |-> Some("4.5"),
     website |-> Some("https://hospital.example"),
     opening_hours |-> Some([open_now |-> open])]

\* the canonical details result: every requested field present, open now
FullResult(pid) == Present(pid, Some(TRUE))

\* a details result with every optional field absent
BareResult ==
    [name |-> None, formatted_address |-> None, formatted_phone_number |-> None,
     rating |-> None, website |-> None, opening_hours |-> None]

DetailResults(pid) ==
    { FullResult(pid), BareResult, Present(pid, Some(FALSE)), Present(pid, None) }

NoDetails == [status |-> None, result |-> None]

\* what requests.get(details_url) / json() can produce (lines 91-92)
DetailsResponses(pid) ==
    { [kind |-> k, body |-> NoDetails] : k \in {"network_error", "bad_json"} }
    \cup { [kind |-> "json", body |-> NoDetails] }  \* a body with no "status"
    \cup { [kind |-> "json", body |-> [status |-> Some("NOT_FOUND"), result |-> None]] }
    \cup { [kind |-> "json", body |-> [status |-> Some("OK"), result |-> None]] }
    \cup { [kind |-> "json", body |-> [status |-> Some("OK"), result |-> Some(d)]] :
             d \in DetailResults(pid) }

CanonicalDetails(pid) ==
    [kind |-> "json", body |-> [status |-> Some("OK"), result |-> Some(FullResult(pid))]]

----------------------------------------------------------------------------
(* Outbound requests *)

GeoRequest(resp) ==
    [endpoint |-> "geo", key |-> None, location |-> None, place_id |-> None,
     response |-> resp]

\* places_params (lines 64-69)
SearchRequest(la, ln, rad, key, resp) ==
    [endpoint |-> "search", key |-> key, location |-> Some(<<la[1], ln[1]>>),
     place_id |-> None, radius |-> rad, response |-> resp]

\* a details request built without the key parameter
DetailsRequestWithoutKey(pid, key, resp) ==
    [endpoint |-> "details", key |-> None, location |-> None, place_id |-> pid,
     response |-> resp]

\* details_params (lines 85-89)
DetailsRequest(pid, key, resp) ==
    [endpoint |-> "details", key |-> key, location |-> None, place_id |-> pid,
     response |-> resp]

CallsTo(ep) == { k \in 1..Len(calls) : calls[k].endpoint = ep }

\* hits of the search response that have no place_id, and details responses
\* served so far that are not the canonical one
Deviations ==
    LET noId == IF places_data = None \/ places_data.results = None THEN {}
                ELSE { k \in 1..Len(places_data.results[1]) :
                         places_data.results[1][k].place_id = None }
        odd == { k \in CallsTo("details") :
                   calls[k].response # CanonicalDetails(calls[k].place_id[1]) }
    IN  Cardinality(noId) + Cardinality(odd)

----------------------------------------------------------------------------
(* Returned strings *)

\* line 55
NoLocationMessage == [msg |-> "Could not detect your location automatically"]
\* the key error written with the text of the location error
NoKeyAsNoLocation == [msg |-> "Could not detect your location automatically"]
\* line 60
NoKeyMessage == [msg |-> "Google Places API key not found"]
\* an error text that drops the provider's status
ApiErrorWithoutStatus(data) ==
    [msg |-> "Google Places API error", status |-> "Unknown error"]
\* line 75
ApiErrorMessage(data) ==
    [msg |-> "Google Places API error", status |-> Get(data.status, "Unknown error")]
\* an empty outcome reported without the detected location
NoHospitalsWithoutLabel(label) ==
    [msg |-> "No hospitals found in your area",
     location_str |-> <<"Unknown City", "Unknown Region">>]
\* line 109
NoHospitalsMessage(label) ==
    [msg |-> "No hospitals found in your area", location_str |-> label]
\* line 125
ExceptionMessage(e) == [msg |-> "Error finding hospitals", exception |-> e]
\* lines 112-120; radius/1000 is kept exact as <<whole km, remaining metres>>
ReportMessage(label, rad, hs) ==
    [msg |-> "report", location_str |-> label,
     radius_km |-> <<rad \div 1000, rad % 1000>>,
     found |-> Len(hs), entries |-> hs,
     emergency |-> "108"]

\* an entry whose website line is left empty when the field is absent
hospital_text_blank_website(n, hospital_info) ==
    [number  |-> n,
     name    |-> Get(hospital_info.name, "Unknown Hospital"),
     address |-> Get(hospital_info.formatted_address, "Address not available"),
     phone   |-> Get(hospital_info.formatted_phone_number, "Phone not available"),
     rating  |-> Get(hospital_info.rating, "No rating"),
     website |-> Get(hospital_info.website, ""),
     status  |-> IF Get(Get(hospital_info.opening_hours, [open_now |-> None]).open_now,
                        FALSE)
                 THEN "Open now" ELSE "Status unknown"]

\* an entry that tells a closed facility from one whose hours are unknown
hospital_text_closed(n, hospital_info) ==
    [number  |-> n,
     name    |-> Get(hospital_info.name, "Unknown Hospital"),
     address |-> Get(hospital_info.formatted_address, "Address not available"),
     phone   |-> Get(hospital_info.formatted_phone_number, "Phone not available"),
     rating  |-> Get(hospital_info.rating, "No rating"),
     website |-> Get(hospital_info.website, "Website not available"),
     status  |-> LET open == Get(hospital_info.opening_hours, [open_now |-> None]).open_now
                 IN  IF open = None THEN "Status unknown"
                     ELSE IF open[1] THEN "Open now" ELSE "Closed"]

\* an entry numbered by its position in the output list
hospital_text_by_position(n, hospital_info) ==
    [number  |-> Len(hospitals) + 1,
     name    |-> Get(hospital_info.name, "Unknown Hospital"),
     address |-> Get(hospital_info.formatted_address, "Address not available"),
     phone   |-> Get(hospital_info.formatted_phone_number, "Phone not available"),
     rating  |-> Get(hospital_info.rating, "No rating"),
     website |-> Get(hospital_info.website, "Website not available"),
     status  |-> IF Get(Get(hospital_info.opening_hours, [open_now |-> None]).open_now,
                        FALSE)
                 THEN "Open now" ELSE "Status unknown"]

\* hospital_text (lines 98-105)
hospital_text(n, hospital_info) ==
    [number  |-> n,
     name    |-> Get(hospital_info.name, "Unknown Hospital"),
     address |-> Get(hospital_info.formatted_address, "Address not available"),
     phone   |-> Get(hospital_info.formatted_phone_number, "Phone not available"),
     rating  |-> Get(hospital_info.rating, "No rating"),
     website |-> Get(hospital_info.website, "Website not available"),
     status  |-> IF Get(Get(hospital_info.opening_hours, [open_now |-> None]).open_now,
                        FALSE)
                 THEN "Open now" ELSE "Status unknown"]

----------------------------------------------------------------------------
(* find_nearby_hospitals *)

Radii == {DefaultRadius}

\* os.getenv("GOOGLE_PLACES_API_KEY"): unset, set to "", or set to a key
EnvKeys == {None, Some(""), Some("AIza-key")}

\* the locals of an invocation that has not started yet
NewFrame(id, rad) ==
    [id |-> id, pc |-> "start", radius |-> rad, lat |-> None, lng |-> None,
     location_str |-> None, api_key |-> None, places_data |-> None, i |-> 0,
     hospitals |-> <<>>, calls |-> <<>>, result |-> None]

Init ==
    /\ me = 1
    /\ peer = NewFrame(2, DefaultRadius)
    /\ pc = "start"
    /\ radius \in Radii
    /\ env_key \in EnvKeys
    /\ lat = None
    /\ lng = None
    /\ location_str = None
    /\ api_key = None
    /\ places_data = None
    /\ i = 0
    /\ hospitals = <<>>
    /\ calls = <<>>
    /\ result = None

\* return <value>
Return(value) ==
    /\ result' = Some(value)
    /\ pc' = "done"

\* an exception that leaves the function instead of being turned into text
Escape(e) ==
    /\ pc' = "raised"
    /\ result' = None

\* `except Exception as e: return ...` (lines 124-125)
Raise(e) == Return(ExceptionMessage(e))

\* a location test that asks whether the coordinates are present
LocationAbsent(la, ln) == la = None \/ ln = None

\* `not lat or not lng` (line 54)
LocationMissing(la, ln) == ~TruthyNum(la) \/ ~TruthyNum(ln)

\* a key test that only notices an unset variable, not an empty one
KeyUnset(key) == key = None

\* `not api_key` (line 59)
KeyMissing(key) == ~TruthyStr(key)

\* lines 52-60: detect the location, then read the API key
Locate ==
    /\ pc = "start"
    /\ \E resp \in GeoResponses :
         LET got == get_location_from_ip(resp) IN
         /\ calls' = Append(calls, GeoRequest(resp))
         /\ lat' = got.lat
         /\ lng' = got.lng
         /\ location_str' = got.location_str
         /\ IF LocationMissing(got.lat, got.lng)
            THEN /\ Return(NoLocationMessage)
                 /\ UNCHANGED api_key
            ELSE /\ api_key' = env_key
                 /\ IF KeyMissing(env_key)
                    THEN Return(NoKeyMessage)
                    ELSE /\ pc' = "search"
                         /\ UNCHANGED result
    /\ UNCHANGED <<radius, env_key, places_data, i, hospitals, me, peer>>

\* a loop over the whole results list, with no cap
Untruncated(results) == results

\* places_data["results"][:10] (line 79)
Retained(results) == Take(results, MaxResults)

\* lines 62-79: the nearby search and the checks on its response
Search ==
    /\ pc = "search"
    /\ \E resp \in SearchResponses :
         /\ calls' = Append(calls, SearchRequest(lat, lng, radius, api_key, resp))
         /\ IF resp.kind # "json"
            THEN /\ Raise(resp.kind)
                 /\ UNCHANGED <<places_data, i>>
            ELSE /\ places_data' = resp.body
                 /\ IF resp.body.status = None
                    THEN /\ Raise("KeyError: status")
                         /\ UNCHANGED i
                    ELSE IF resp.body.status[1] # "OK"
                    THEN /\ Return(ApiErrorMessage(resp.body))
                         /\ UNCHANGED i
                    ELSE IF resp.body.results = None
                    THEN /\ Raise("KeyError: results")
                         /\ UNCHANGED i
                    ELSE /\ pc' = "loop"
                         /\ i' = 1
                         /\ UNCHANGED result
    /\ UNCHANGED <<radius, env_key, lat, lng, location_str, api_key, hospitals,
                   me, peer>>

\* a sloppy list insertion: the new entry goes to the front
PrependHospital(hs, text) == <<text>> \o hs

\* hospitals.append(hospital_text) (line 106)
AppendHospital(hs, text) == Append(hs, text)

\* a loop that asks again for the same hit instead of moving on
SameIndex(n) == n

\* enumerate(..., 1) moves on to the next hit (line 79)
NextIndex(n) == n + 1

\* a loop body that reads the result without looking at the status
AnyStatus(body) == TRUE

\* `details_data["status"] == "OK"` (line 94)
DetailsOk(body) == body.status[1] = "OK"

\* lines 79-106: one iteration of the loop over the retained hits
NextHit ==
    /\ pc = "loop"
    /\ i <= Len(Retained(places_data.results[1]))
    /\ LET place == Retained(places_data.results[1])[i] IN
       IF ~TruthyNum(place.place_id)
       THEN /\ i' = NextIndex(i)
            /\ UNCHANGED <<pc, result, hospitals, calls>>
       ELSE \E resp \in DetailsResponses(place.place_id[1]) :
            /\ resp = CanonicalDetails(place.place_id[1]) \/ Deviations < MaxDeviations
            /\ calls' = Append(calls, DetailsRequest(place.place_id, api_key, resp))
            /\ IF resp.kind # "json"
               THEN /\ Raise(resp.kind)
                    /\ UNCHANGED <<i, hospitals>>
               ELSE IF resp.body.status = None
               THEN /\ Raise("KeyError: status")
                    /\ UNCHANGED <<i, hospitals>>
               ELSE IF ~DetailsOk(resp.body)
               THEN /\ i' = NextIndex(i)
                    /\ UNCHANGED <<pc, result, hospitals>>
               ELSE IF resp.body.result = None
               THEN /\ Raise("KeyError: result")
                    /\ UNCHANGED <<i, hospitals>>
               ELSE /\ hospitals' = AppendHospital(hospitals,
                                        hospital_text(i, resp.body.result[1]))
                    /\ i' = NextIndex(i)
                    /\ UNCHANGED <<pc, result>>
    /\ UNCHANGED <<radius, env_key, lat, lng, location_str, api_key, places_data,
                   me, peer>>

\* a return that builds the report even when no entry was rendered
FinishWithoutEmptyCheck ==
    /\ pc = "loop"
    /\ i > Len(Retained(places_data.results[1]))
    /\ Return(ReportMessage(location_str[1], radius, hospitals))
    /\ UNCHANGED <<radius, env_key, lat, lng, location_str, api_key, places_data,
                   i, hospitals, calls, me, peer>>

\* lines 108-122: the loop is over; build the returned text
Finish ==
    /\ pc = "loop"
    /\ i > Len(Retained(places_data.results[1]))
    /\ IF hospitals = <<>>
       THEN Return(NoHospitalsMessage(location_str[1]))
       ELSE Return(ReportMessage(location_str[1], radius, hospitals))
    /\ UNCHANGED <<radius, env_key, lat, lng, location_str, api_key, places_data,
                   i, hospitals, calls, me, peer>>

Next ==
    \/ Locate
    \/ Search
    \/ NextHit
    \/ Finish

Spec == Init /\ [][Next]_vars

----------------------------------------------------------------------------
(* Two concurrent invocations *)

\* most hits of a search response when two invocations run together
MaxConcHits == 1

\* the locals of the running invocation
Frame ==
    [id |-> me, pc |-> pc, radius |-> radius, lat |-> lat, lng |-> lng,
     location_str |-> location_str, api_key |-> api_key,
     places_data |-> places_data, i |-> i, hospitals |-> hospitals,
     calls |-> calls, result |-> result]

\* a switch between invocations whose list of entries is one module-level
\* list, left in place when the other invocation takes over
SwitchSharingHospitals ==
    /\ peer' = Frame
    /\ me' = peer.id
    /\ pc' = peer.pc
    /\ radius' = peer.radius
    /\ lat' = peer.lat
    /\ lng' = peer.lng
    /\ location_str' = peer.location_str
    /\ api_key' = peer.api_key
    /\ places_data' = peer.places_data
    /\ i' = peer.i
    /\ calls' = peer.calls
    /\ result' = peer.result
    /\ UNCHANGED <<env_key, hospitals>>

\* The running invocation waits at a request (lines 23, 71, 91) or has
\* returned, and the other invocation runs. Everything find_nearby_hospitals
\* works on is local to the call (lines 52-122); only the environment is
\* common to both.
Switch ==
    /\ peer' = Frame
    /\ me' = peer.id
    /\ pc' = peer.pc
    /\ radius' = peer.radius
    /\ lat' = peer.lat
    /\ lng' = peer.lng
    /\ location_str' = peer.location_str
    /\ api_key' = peer.api_key
    /\ places_data' = peer.places_data
    /\ i' = peer.i
    /\ hospitals' = peer.hospitals
    /\ calls' = peer.calls
    /\ result' = peer.result
    /\ UNCHANGED env_key

\* the geolocation responses served when two invocations run together
ConcGeoResponses ==
    { [kind |-> "network_error", body |-> [loc |-> None, city |-> None, region |-> None]],
      [kind |-> "json", body |-> [loc |-> Some(<<Num(19), Num(72)>>),
                                  city |-> Some("Mumbai"), region |-> Some("Maharashtra")]],
      [kind |-> "json", body |-> [loc |-> Some(<<Num(19), Num(72)>>),
                                  city |-> None, region |-> None]] }

\* the responses received by the running invocation are among the small ones
SmallRun ==
    \A k \in 1..Len(calls) :
        /\ calls[k].endpoint = "geo" => calls[k].response \in ConcGeoResponses
        /\ calls[k].endpoint = "search" =>
              \/ calls[k].response.body.results = None
              \/ Len(calls[k].response.body.results[1]) <= MaxConcHits

ConcNext ==
    \/ Locate /\ SmallRun'
    \/ Search /\ SmallRun'
    \/ NextHit
    \/ Finish
    \/ Switch

ConcurrentSpec == Init /\ [][ConcNext]_vars

\* The value find_nearby_hospitals returns when it runs from start to end on
\* its own, given the key in the environment, its radius and the responses
\* cs it receives, in the order it receives them (lines 50-125).
RECURSIVE AloneLoop(_, _, _, _, _, _)
AloneLoop(label, rad, hits, n, hs, cs) ==
    IF n > Len(hits)
    THEN IF hs = <<>> THEN NoHospitalsMessage(label)
         ELSE ReportMessage(label, rad, hs)
    ELSE IF ~TruthyNum(hits[n].place_id)
    THEN AloneLoop(label, rad, hits, n + 1, hs, cs)
    ELSE LET resp == cs[1].response IN
         IF resp.kind # "json" THEN ExceptionMessage(resp.kind)
         ELSE IF resp.body.status = None THEN ExceptionMessage("KeyError: status")
         ELSE IF resp.body.status[1] # "OK"
         THEN AloneLoop(label, rad, hits, n + 1, hs, Tail(cs))
         ELSE IF resp.body.result = None THEN ExceptionMessage("KeyError: result")
         ELSE AloneLoop(label, rad, hits, n + 1,
                        Append(hs, hospital_text(n, resp.body.result[1])), Tail(cs))

Alone(key, rad, cs) ==
    LET got == get_location_from_ip(cs[1].response) IN
    IF ~TruthyNum(got.lat) \/ ~TruthyNum(got.lng) THEN NoLocationMessage
    ELSE IF ~TruthyStr(key) THEN NoKeyMessage
    ELSE LET resp == cs[2].response IN
         IF resp.kind # "json" THEN ExceptionMessage(resp.kind)
         ELSE IF resp.body.status = None THEN ExceptionMessage("KeyError: status")
         ELSE IF resp.body.status[1] # "OK" THEN ApiErrorMessage(resp.body)
         ELSE IF resp.body.results = None THEN ExceptionMessage("KeyError: results")
         ELSE AloneLoop(got.location_str[1], rad,
                        Take(resp.body.results[1], MaxResults), 1, <<>>,
                        SubSeq(cs, 3, Len(cs)))

----------------------------------------------------------------------------
(* Vocabulary of the properties *)

Returned == pc = "done"
Value == result[1]

IsReport == Returned /\ Value.msg = "report"
IsNoHospitals == Returned /\ Value.msg = "No hospitals found in your area"

\* the responses the invocation has received so far
GeoAnswered == Len(calls) >= 1
GeoResponse == calls[1].response
SearchAnswered == Len(calls) >= 2
SearchResponse == calls[2].response

PlacesCalls == CallsTo("search") \cup CallsTo("details")

\* the search answered "OK" with a results list
SearchOk ==
    /\ SearchAnswered
    /\ SearchResponse.kind = "json"
    /\ SearchResponse.body.status = Some("OK")
    /\ SearchResponse.body.results # None

Hits == SearchResponse.body.results[1]

\* the label the geolocation response carries
LabelOf(resp) ==
    <<IF resp.body.city = None THEN "Unknown City" ELSE resp.body.city[1],
      IF resp.body.region = None THEN "Unknown Region" ELSE resp.body.region[1]>>

\* the geolocation response does not yield a coordinate pair
GeoFailed(resp) ==
    \/ resp.kind \in {"network_error", "http_error", "bad_json"}
    \/ resp.body.loc \in {None, Some(<<>>)}
    \/ Len(resp.body.loc[1]) # 2
    \/ \E k \in 1..Len(resp.body.loc[1]) : resp.body.loc[1][k] = Junk

\* the details call made for the hit of provider rank n (place ids are ranks)
DetailsCallFor(n) == { k \in CallsTo("details") : calls[k].place_id = Some(n) }

\* the details fetch of call k succeeded: status OK and a result
DetailsSucceeded(k) ==
    /\ calls[k].response.kind = "json"
    /\ calls[k].response.body.status = Some("OK")
    /\ calls[k].response.body.result # None

\* the details fetch of call k was answered with a provider status other than OK
DetailsRefused(k) ==
    /\ calls[k].response.kind = "json"
    /\ calls[k].response.body.status \notin {None, Some("OK")}

----------------------------------------------------------------------------
(* C1: the facilities of a report appear in the order of their hits in the   *)
(* search result: entry numbers are provider ranks, strictly increasing, and *)
(* each entry is the rendering of the details answered for the hit of that   *)
(* rank; the returned report lists them as they were collected.              *)
C1_ReportInSearchOrder ==
    LET es == IF IsReport THEN Value.entries ELSE hospitals IN
    /\ \A a, b \in 1..Len(es) : a < b => es[a].number < es[b].number
    /\ \A a \in 1..Len(es) :
         /\ es[a].number \in 1..Len(Hits)
         /\ Hits[es[a].number].place_id # None
         /\ \E k \in DetailsCallFor(Hits[es[a].number].place_id[1]) :
              /\ DetailsSucceeded(k)
              /\ es[a] = hospital_text(es[a].number, calls[k].response.body.result[1])
    /\ IsReport => Value.entries = hospitals

\* a report of at least three facilities has been returned
C1_Witness == IsReport /\ Len(Value.entries) >= 3

\* the search kept N hits, all with a place_id; the details of exactly one were
\* refused with a provider status and the others succeeded; the lookup returned
C2_OneRefusedOthersFine ==
    /\ Returned
    /\ SearchOk
    /\ Len(Hits) \in 1..MaxResults
    /\ \A n \in 1..Len(Hits) : Hits[n].place_id # None
    /\ \A n \in 1..Len(Hits) : DetailsCallFor(n) # {}
    /\ Cardinality({ k \in CallsTo("details") : DetailsRefused(k) }) = 1
    /\ \A k \in CallsTo("details") : DetailsRefused(k) \/ DetailsSucceeded(k)

C3_NoCallWithoutKey ==
    (Returned /\ env_key \in {None, Some("")}) =>
        Value.msg = "Google Places API key not found" /\ calls = <<>>

(* C3 (amended): with no API key configured no places call (search, details) *)
(* is ever made and the only outbound call is the one geolocation call; the  *)
(* lookup returns the key-missing error when the location was detected and   *)
(* the location-not-detected error otherwise.                                *)
C3_NoPlacesCallWithoutKey ==
    env_key \in {None, Some("")} =>
        /\ PlacesCalls = {}
        /\ Returned =>
             /\ Len(calls) = 1
             /\ calls[1].endpoint = "geo"
             /\ Value.msg = IF TruthyNum(lat) /\ TruthyNum(lng)
                            THEN "Google Places API key not found"
                            ELSE "Could not detect your location automatically"

\* the key is the empty string, the location was detected, the key error returned
C3_Witness ==
    /\ Returned
    /\ env_key = Some("")
    /\ lat = Some(19)
    /\ Value.msg = "Google Places API key not found"

(* C4: when location resolution fails (network failure, HTTP error status,   *)
(* unparsable body, absent, empty or malformed loc) the lookup returns the   *)
(* location-not-detected message at once, with no places call; and a search  *)
(* is only ever made at the coordinates the geolocation response carried.    *)
C4_NoLocationStopsLookup ==
    /\ (GeoAnswered /\ GeoFailed(GeoResponse)) =>
          /\ Returned
          /\ Value = [msg |-> "Could not detect your location automatically"]
          /\ PlacesCalls = {}
    /\ \A k \in CallsTo("search") :
          /\ ~GeoFailed(GeoResponse)
          /\ calls[k].location =
                Some(<<GeoResponse.body.loc[1][1][2], GeoResponse.body.loc[1][2][2]>>)

\* the loc field was present but malformed, and the lookup has returned
C4_Witness ==
    /\ Returned
    /\ GeoResponse.kind = "json"
    /\ GeoResponse.body.loc = Some(<<Num(19), Junk>>)

(* C5: when the search response carries an error status such as              *)
(* OVER_QUERY_LIMIT, the lookup returns the provider-error message with that *)
(* exact status and makes no details call.                                   *)
C5_SearchErrorCarriesStatus ==
    \A st \in ProviderErrors :
        (SearchAnswered /\ SearchResponse.kind = "json"
                        /\ SearchResponse.body.status = Some(st)) =>
            /\ Returned
            /\ Value = [msg |-> "Google Places API error", status |-> st]
            /\ CallsTo("details") = {}

\* the search answered OVER_QUERY_LIMIT
C5_Witness ==
    /\ Returned
    /\ SearchAnswered
    /\ SearchResponse.body.status = Some("OVER_QUERY_LIMIT")

(* C6: when the search response carries status ZERO_RESULTS the lookup       *)
(* returns the zero-facility outcome with the detected location label, not   *)
(* an error.                                                                 *)
C6_ZeroResultsIsEmptyReport ==
    (Returned /\ SearchAnswered /\ SearchResponse.kind = "json"
              /\ SearchResponse.body.status = Some("ZERO_RESULTS")) =>
        Value = [msg |-> "No hospitals found in your area",
                 location_str |-> LabelOf(GeoResponse)]

(* C7: when the search response is OK with an empty results list, no details *)
(* call is made and the lookup returns the no-hospitals-found message with   *)
(* the detected location label, not an error.                                *)
C7_EmptyResultsIsEmptyReport ==
    (SearchOk /\ Hits = <<>>) =>
        /\ CallsTo("details") = {}
        /\ Returned =>
             Value = [msg |-> "No hospitals found in your area",
                      location_str |-> LabelOf(GeoResponse)]

\* an empty OK search for a caller in Mumbai, and the lookup has returned
C7_Witness ==
    /\ Returned
    /\ SearchOk
    /\ Hits = <<>>
    /\ GeoResponse.body.city = Some("Mumbai")

(* C8: only the first MaxResults (10) hits of the search result are ever     *)
(* asked for details or reported: every details call is for a hit among the  *)
(* first 10, every entry number is at most 10, and no report lists more than *)
(* 10 facilities.                                                            *)
C8_OnlyFirstTenHits ==
    /\ \A k \in CallsTo("details") :
          \E n \in 1..MaxResults :
              n <= Len(Hits) /\ Hits[n].place_id = calls[k].place_id
    /\ Len(hospitals) <= MaxResults
    /\ \A a \in 1..Len(hospitals) : hospitals[a].number \in 1..MaxResults
    /\ IsReport => Value.found <= MaxResults /\ Len(Value.entries) <= MaxResults

\* the search returned more than 10 hits and a report of 10 was returned
C8_Witness == IsReport /\ Len(Hits) > MaxResults /\ Value.found = MaxResults

\* call k got no usable answer: the lookup cannot go on after it
CallFailed(k) ==
    \/ calls[k].endpoint = "geo" /\ GeoFailed(calls[k].response)
    \/ calls[k].endpoint = "search"
         /\ (calls[k].response.kind # "json"
             \/ calls[k].response.body.status # Some("OK"))
    \/ calls[k].endpoint = "details"
         /\ (calls[k].response.kind # "json" \/ calls[k].response.body.status = None)

(* C9: the outbound calls of an invocation are one geolocation call, then at *)
(* most one search call, then at most one details call per retained hit in   *)
(* rank order; nothing is requested twice, and a call that failed is the     *)
(* last call of the invocation.                                              *)
C9_CallOrderNoRetry ==
    /\ Returned => GeoAnswered
    /\ \A k \in 1..Len(calls) :
          /\ calls[k].endpoint = "geo" <=> k = 1
          /\ calls[k].endpoint = "search" <=> k = 2
          /\ calls[k].endpoint = "details" <=> k >= 3
          /\ CallFailed(k) => k = Len(calls) /\ Returned
    /\ \A k \in CallsTo("details") :
          \E n \in 1..Len(Retained(Hits)) : Hits[n].place_id = calls[k].place_id
    /\ \A j, k \in CallsTo("details") :
          j < k => calls[j].place_id[1] < calls[k].place_id[1]

\* a lookup that returned after a geolocation, a search and several details calls
C9_Witness == Returned /\ Len(calls) >= 5

(* C10: a failed details lookup of any kind (provider status, network error, *)
(* unparsable or status-less body) never makes the lookup return an error:   *)
(* once the location resolved, the key is present and the search returned    *)
(* OK, the lookup returns a report or the no-hospitals outcome, and every    *)
(* hit whose details fetch succeeded is in it.                               *)
C10_DetailFailureNeverFailsLookup ==
    (/\ Returned
     /\ SearchOk
     /\ \A k \in CallsTo("details") :
           \/ DetailsSucceeded(k)
           \/ DetailsRefused(k)
           \/ calls[k].response.kind \in {"network_error", "bad_json"}
           \/ calls[k].response.body.status = None) =>
        /\ IsReport \/ IsNoHospitals
        /\ \A k \in CallsTo("details") :
              DetailsSucceeded(k) =>
                  /\ IsReport
                  /\ \E a \in 1..Len(Value.entries) :
                        Hits[Value.entries[a].number].place_id = calls[k].place_id

\* why the lookup returned, read off the responses it received
LocationCheckFailed ==
    GeoAnswered /\ (GeoFailed(GeoResponse)
                    \/ GeoResponse.body.loc[1][1][2] = 0
                    \/ GeoResponse.body.loc[1][2][2] = 0)
KeyCheckFailed == GeoAnswered /\ ~LocationCheckFailed /\ env_key \in {None, Some("")}
SearchRefused ==
    /\ SearchAnswered
    /\ SearchResponse.kind = "json"
    /\ SearchResponse.body.status \notin {None, Some("OK")}
UnexpectedException ==
    \E k \in PlacesCalls :
        \/ calls[k].response.kind # "json"
        \/ calls[k].response.body.status = None
        \/ calls[k].endpoint = "search" /\ calls[k].response.body.status = Some("OK")
                                        /\ calls[k].response.body.results = None
        \/ calls[k].endpoint = "details" /\ calls[k].response.body.status = Some("OK")
                                         /\ calls[k].response.body.result = None

(* C11: the three failure classes (location not detected, API key missing,   *)
(* provider error with status) return pairwise different values, each value  *)
(* returned for its own class only, and an unexpected exception in a places  *)
(* call is returned as none of the three.                                    *)
C11_FailureClassesDistinct ==
    Returned =>
        /\ Value.msg = "Could not detect your location automatically"
              <=> LocationCheckFailed
        /\ Value.msg = "Google Places API key not found" <=> KeyCheckFailed
        /\ Value.msg = "Google Places API error" <=> SearchRefused
        /\ UnexpectedException => Value.msg = "Error finding hospitals"

\* the lookup returned because the key is missing
C11_Witness == Returned /\ KeyCheckFailed

Entries == IF IsReport THEN Value.entries ELSE hospitals

\* the details result the entry numbered n was rendered from
ResultFor(n) ==
    LET k == CHOOSE c \in DetailsCallFor(Hits[n].place_id[1]) : TRUE
    IN  calls[k].response.body.result[1]

(* C13: rendering is total: every rendered entry has all of the name,        *)
(* address, phone, rating, website and status lines, none of them empty, and *)
(* an entry rendered from a details result with every optional field absent  *)
(* shows the five fallback texts.                                            *)
C13_RenderingTotal ==
    \A a \in 1..Len(Entries) :
        LET e == Entries[a] IN
        /\ DOMAIN e = {"number", "name", "address", "phone", "rating",
                       "website", "status"}
        /\ \A f \in {"name", "address", "phone", "rating", "website", "status"} :
              e[f] # ""
        /\ ResultFor(e.number) = BareResult =>
              /\ e.address = "Address not available"
              /\ e.phone = "Phone not available"
              /\ e.rating = "No rating"
              /\ e.website = "Website not available"
              /\ e.status = "Status unknown"

\* a report that holds an entry rendered from a result with no optional field
C13_Witness ==
    /\ IsReport
    /\ \E a \in 1..Len(Value.entries) : ResultFor(Value.entries[a].number) = BareResult

(* C14: every coordinate pair returned as resolved has its latitude in       *)
(* [-90, 90] and its longitude in [-180, 180], and no point outside those    *)
(* ranges is ever passed to the places search.                               *)
C14_ResolvedPointInRange ==
    /\ (lat # None /\ lng # None) =>
          lat[1] \in -90..90 /\ lng[1] \in -180..180
    /\ \A k \in CallsTo("search") :
          /\ calls[k].location[1][1] \in -90..90
          /\ calls[k].location[1][2] \in -180..180

(* C17: the status line is "Open now" only when the details result has       *)
(* opening_hours.open_now true; with open_now false, open_now absent or      *)
(* opening_hours absent it is "Status unknown", so a closed facility is      *)
(* rendered like one whose hours are unknown.                                *)
C17_OpenNowOrUnknown ==
    \A a \in 1..Len(Entries) :
        LET e == Entries[a]
            d == ResultFor(e.number)
            open == d.opening_hours # None
                      /\ d.opening_hours[1].open_now = Some(TRUE)
        IN  e.status = IF open THEN "Open now" ELSE "Status unknown"

\* a report that holds a facility known to be closed
C17_Witness ==
    /\ IsReport
    /\ \E a \in 1..Len(Value.entries) :
          /\ ResultFor(Value.entries[a].number).opening_hours
                = Some([open_now |-> Some(FALSE)])
          /\ Value.entries[a].status = "Status unknown"

(* C18: a location that parsed successfully but has latitude 0 or longitude  *)
(* 0 is treated like a failed resolution: the lookup returns the             *)
(* could-not-detect-location message and makes no places call.               *)
C18_ZeroCoordinateIsNoLocation ==
    (GeoAnswered /\ ~GeoFailed(GeoResponse)
        /\ (GeoResponse.body.loc[1][1][2] = 0 \/ GeoResponse.body.loc[1][2][2] = 0)) =>
            /\ lat # None /\ lng # None
            /\ Returned
            /\ Value = [msg |-> "Could not detect your location automatically"]
            /\ PlacesCalls = {}

\* the service located the caller on the equator and the lookup returned
C18_Witness ==
    /\ Returned
    /\ lat = Some(0)
    /\ lng = Some(72)

\* the retained hit of rank n is one the loop renders: it has a place_id and
\* its details were answered with status OK
Renderable(n) ==
    /\ Hits[n].place_id # None
    /\ \E k \in DetailsCallFor(Hits[n].place_id[1]) :
          /\ calls[k].response.kind = "json"
          /\ calls[k].response.body.status = Some("OK")

EntryNumbers == { Entries[a].number : a \in 1..Len(Entries) }

Skipped == { n \in 1..Len(Retained(Hits)) : ~Renderable(n) }

(* C20 (as stated): the number of each entry is the rank of its hit, numbers *)
(* are strictly increasing and lie in 1..10, the header count equals the     *)
(* number of entries, and the numbers are consecutive 1..N only when no      *)
(* retained hit was skipped.                                                 *)
C20_ConsecutiveOnlyWithoutSkip ==
    IsReport =>
        /\ Value.found = Len(Value.entries)
        /\ \A a, b \in 1..Len(Value.entries) :
              a < b => Value.entries[a].number < Value.entries[b].number
        /\ EntryNumbers \subseteq 1..MaxResults
        /\ EntryNumbers = 1..Value.found => Skipped = {}

(* C20 (amended): the number of each entry is the rank of its hit among the  *)
(* first 10 search results, numbers are strictly increasing and lie in       *)
(* 1..10, the header count equals the number of entries, and the numbers are *)
(* consecutive 1..N exactly when no retained hit ranked before the last      *)
(* rendered one was skipped.                                                 *)
C20_NumbersAreRanks ==
    IsReport =>
        /\ Value.found = Len(Value.entries)
        /\ \A a, b \in 1..Len(Value.entries) :
              a < b => Value.entries[a].number < Value.entries[b].number
        /\ EntryNumbers \subseteq 1..MaxResults
        /\ \A n \in EntryNumbers : n <= Len(Hits) /\ Renderable(n)
        /\ EntryNumbers = 1..Value.found
              <=> \A n \in Skipped : \A m \in 1..Len(Retained(Hits)) :
                      Renderable(m) => m < n

\* a report whose numbering has a gap left by a skipped hit
C20_Witness ==
    /\ IsReport
    /\ \E n \in Skipped : n + 1 \in EntryNumbers

(* C15: every places request of an invocation (the search and each details   *)
(* call) carries the configured API key, the same value in all of them and   *)
(* the one the invocation read, and none is sent with an empty or absent     *)
(* key.                                                                      *)
C15_EveryPlacesRequestCarriesKey ==
    \A k \in PlacesCalls :
        /\ calls[k].key = env_key
        /\ calls[k].key = api_key
        /\ calls[k].key # None
        /\ calls[k].key[1] # ""

\* a lookup that made a search and several details requests has returned
C15_Witness == Returned /\ Cardinality(CallsTo("details")) >= 2

(* C16: invocations are independent: when two lookups run concurrently and   *)
(* take turns at their network calls, the value each one returns is the one  *)
(* it returns when it runs alone against the same responses.                 *)
C16_InterleavingChangesNothing ==
    /\ Returned => Value = Alone(env_key, radius, calls)
    /\ peer.pc = "done" => peer.result[1] = Alone(env_key, peer.radius, peer.calls)

\* this lookup ran its loop and returned a report while the other one, which
\* has rendered an entry already, is still waiting inside its own loop
C16_Witness ==
    /\ IsReport
    /\ peer.pc = "loop"
    /\ peer.hospitals # <<>>

====
